---- MODULE Spec2Model ----
(***************************************************************************)
(* Book-Tracker: the Express backend of src/server.js.  The books table of *)
(* books.db, its AUTOINCREMENT counter, the request being handled and the  *)
(* response it was given are the state; every route handler is one action. *)
(* The React client of src/App.jsx: its useState cells, the requests it    *)
(* has in flight with the values their closures captured, and its timers.  *)
(***************************************************************************)
EXTENDS Integers, Sequences, FiniteSets, TLC

VARIABLES books, seq, req, res, outbound, apiKey

\* The client: clientBooks is the `books` state cell of App, newBook the five
\* newBook* cells of the add form; inflight holds the fetches not yet
\* settled, timers counts the pending setTimeout callbacks, nreq the
\* fetches started so far.  confirmed is a history variable: the mutations
\* whose 2xx response the client has handled.
VARIABLES clientBooks, view, newBook, searchResults, searchQuery, loading,
          error, message, timers, inflight, nreq, confirmed

serverVars == <<books, seq, req, res, outbound, apiKey>>
clientVars == <<clientBooks, view, newBook, searchResults, searchQuery,
                loading, error, message, timers, inflight, nreq, confirmed>>
vars == <<serverVars, clientVars>>

(* ---------------------------------------------------------------- values *)
\* JavaScript / JSON values are strings here; the two non-string values a
\* JSON body or a destructuring can yield are reserved tokens.
Undefined == "<undefined>"
Null == "<null>"

\* JavaScript truthiness, as `!title` and `if (statusFilter)` apply it.
Falsy(v) == v \in {Undefined, Null, ""}

\* What node-sqlite3 binds for a parameter: undefined is left unbound, which
\* SQLite reads as NULL; strings are bound as they are.
ToSql(v) == IF v = Undefined THEN Null ELSE v

\* The status enumeration of the schema comment and of the <select> options.
Statuses == {"Want to Read", "Reading", "Finished"}

Fields == {"title", "author", "status", "notes", "coverImageUrl"}

(* ---------------------------------------------------------------- bounds *)
\* Largest id the AUTOINCREMENT counter may hand out in a run.
MaxSeq == 2
\* Largest number of items the external catalog answers with.
MaxItems == 6
\* Largest number of fetches the client starts in a run.
MaxRequests == 3

(* ---------------------------------------------------------------- inputs *)
\* JSON bodies of POST /books: title and status each absent, empty or
\* given; the optional members all absent or all given.
PostBodies ==
    {[title |-> t, author |-> o[1], status |-> st, notes |-> o[2],
      coverImageUrl |-> o[3]] :
        t \in {Undefined, "", "Dune"},
        st \in {Undefined, "", "Reading", "Finished"},
        o \in {<<Undefined, Undefined, Undefined>>, <<"Herbert", "n", "u">>}}

\* JSON bodies of PUT /books/:id: every subset of the members, and a null
\* title.
PutBodies ==
    [title : {Undefined, ""},
     author : {Undefined, "Herbert"},
     status : {Undefined, "Reading", "Finished"},
     notes : {Undefined, "n"},
     coverImageUrl : {Undefined, "u"}]
        \cup {[title |-> Null, author |-> Undefined, status |-> Undefined,
               notes |-> Undefined, coverImageUrl |-> Undefined]}

\* The :id route parameter.  An id names no row before its insertion and
\* after its deletion.
IdParams == 1 .. MaxSeq

StatusFilters == {Undefined, "", "Reading", "Finished"}
Queries == {Undefined, "", "dune"}

\* Items of the external catalog's answer: volumeInfo with every member,
\* with none, with a small thumbnail only, and an item without volumeInfo.
FullItem ==
    [hasVolumeInfo |-> TRUE, title |-> "Dune", hasAuthors |-> TRUE,
     authors |-> <<"Frank Herbert", "Brian Herbert">>, hasImageLinks |-> TRUE,
     thumbnail |-> "thumb.jpg", smallThumbnail |-> "small.jpg",
     description |-> "A desert planet."]
BareItem ==
    [hasVolumeInfo |-> TRUE, title |-> Undefined, hasAuthors |-> FALSE,
     authors |-> <<>>, hasImageLinks |-> FALSE, thumbnail |-> Undefined,
     smallThumbnail |-> Undefined, description |-> Undefined]
SmallThumbItem ==
    [FullItem EXCEPT !.thumbnail = Undefined, !.authors = <<"Frank Herbert">>]
NoInfoItem == [BareItem EXCEPT !.hasVolumeInfo = FALSE]

ItemLists ==
    {[i \in 1 .. n |-> it] : n \in 0 .. MaxItems, it \in {FullItem, BareItem}}
        \cup {<<FullItem, SmallThumbItem, BareItem>>, <<FullItem, NoInfoItem>>}

\* What the outbound fetch can come back with: a rejection, a non-2xx
\* response, a 2xx body without items, a 2xx body with items.
NoUpstream ==
    [threw |-> FALSE, ok |-> TRUE, status |-> 200, statusText |-> "OK",
     hasItems |-> FALSE, items |-> <<>>]
Upstreams ==
    {[NoUpstream EXCEPT !.threw = TRUE],
     [NoUpstream EXCEPT !.ok = FALSE, !.status = 403,
                        !.statusText = "Forbidden"],
     NoUpstream}
        \cup {[NoUpstream EXCEPT !.hasItems = TRUE, !.items = l] :
                l \in ItemLists}

(* ------------------------------------------------- requests, responses *)
NoBody == [f \in Fields |-> Undefined]
NoReq == [method |-> "none", path |-> "none", id |-> 0, body |-> NoBody,
          status |-> Undefined, q |-> Undefined]
PostReq(b) == [NoReq EXCEPT !.method = "POST", !.path = "/books", !.body = b]
PutReq(id, b) ==
    [NoReq EXCEPT !.method = "PUT", !.path = "/books", !.id = id, !.body = b]
DeleteReq(id) == [NoReq EXCEPT !.method = "DELETE", !.path = "/books", !.id = id]
GetReq(st) == [NoReq EXCEPT !.method = "GET", !.path = "/books", !.status = st]
SearchReq(q) == [NoReq EXCEPT !.method = "GET", !.path = "/search-books", !.q = q]

NoBook == [id |-> 0, title |-> Undefined, author |-> Undefined,
           status |-> Undefined, notes |-> Undefined,
           coverImageUrl |-> Undefined]
\* A response: the HTTP status and the members of its JSON body.  json says
\* what the body is: "error", "message", "book", "rows" or "results".
NoRes == [status |-> 0, json |-> "none", error |-> Undefined,
          message |-> Undefined, id |-> 0, book |-> NoBook, rows |-> <<>>,
          results |-> <<>>]
\* The outbound call a handler made to the external catalog, if any.
NoCall == [called |-> FALSE, q |-> Undefined, key |-> Undefined,
           maxResults |-> 0]

ErrorRes(code, msg) ==
    [NoRes EXCEPT !.status = code, !.json = "error", !.error = msg]
MessageRes(code, msg, id) ==
    [NoRes EXCEPT !.status = code, !.json = "message", !.message = msg,
                  !.id = id]

\* What a handler leaves behind: the table, the counter, the response and
\* the outbound call.
Outcome(rows, s, r, call) ==
    [books |-> rows, seq |-> s, res |-> r, outbound |-> call]

(* ------------------------------------------------------------- the table *)
Ids(rows) == {rows[i].id : i \in DOMAIN rows}

MaxOf(S) == IF S = {} THEN 0 ELSE CHOOSE m \in S : \A n \in S : n <= m

\* A rowid column without AUTOINCREMENT: one more than the largest rowid
\* now in the table.
NextIdReusing(rows, s) == MaxOf(Ids(rows)) + 1

\* The rowid an INTEGER PRIMARY KEY AUTOINCREMENT column gives the next
\* inserted row: one more than the largest rowid the table has ever held.
NextId(rows, s) == MaxOf(Ids(rows) \cup {s}) + 1

\* Columns declared NOT NULL.
NotNullColumns == {"title", "status"}

SqliteConstraint == "SQLITE_CONSTRAINT: NOT NULL constraint failed"

(* ---------------------------------------------------------- GET /books *)
\* A list that ignores the status parameter.
GetBooksUnfiltered(key, rows, s, statusFilter) ==
    [books |-> rows, seq |-> s,
     res |-> [NoRes EXCEPT !.status = 200, !.json = "rows", !.rows = rows],
     outbound |-> NoCall]

GetBooks(key, rows, s, statusFilter) ==
    LET Keep(row) == row.status = statusFilter
        out == IF ~Falsy(statusFilter) THEN SelectSeq(rows, Keep) ELSE rows
    IN  Outcome(rows, s,
                [NoRes EXCEPT !.status = 200, !.json = "rows", !.rows = out],
                NoCall)

(* --------------------------------------------------------- POST /books *)
\* A validation that forgets the status.
MissingRequiredTitleOnly(body) == Falsy(body.title)

\* if (!title || !status)
MissingRequired(body) == Falsy(body.title) \/ Falsy(body.status)

PostBooks(key, rows, s, body) ==
    IF MissingRequired(body)
    THEN Outcome(rows, s, ErrorRes(400, "Title and Status are required."),
                 NoCall)
    ELSE LET lastID == NextId(rows, s)
             row == [id |-> lastID,
                     title |-> ToSql(body.title),
                     author |-> ToSql(body.author),
                     status |-> ToSql(body.status),
                     notes |-> ToSql(body.notes),
                     coverImageUrl |-> ToSql(body.coverImageUrl)]
         IN  IF \E f \in NotNullColumns : row[f] = Null
             THEN Outcome(rows, s, ErrorRes(500, SqliteConstraint), NoCall)
             ELSE Outcome(Append(rows, row), lastID,
                          [NoRes EXCEPT
                              !.status = 201, !.json = "book",
                              !.book = [id |-> lastID,
                                        title |-> body.title,
                                        author |-> body.author,
                                        status |-> body.status,
                                        notes |-> body.notes,
                                        coverImageUrl |-> body.coverImageUrl]],
                          NoCall)

(* ------------------------------------------------------ PUT /books/:id *)
\* A SET clause built with `!== null`: absent members are set as well.
UpdatesNotNull(body) == {f \in Fields : body[f] # Null}

\* The SET clause: the columns whose body member is not undefined.
Updates(body) == {f \in Fields : body[f] # Undefined}

\* An update that replaces the whole row by the body.
UpdateRowReplacing(row, body) ==
    [f \in DOMAIN row |-> IF f = "id" THEN row.id ELSE ToSql(body[f])]

UpdateRow(row, body) ==
    [f \in DOMAIN row |->
        IF f \in Updates(body) THEN ToSql(body[f]) ELSE row[f]]

\* A match by position in the table instead of by id.
MatchedByPosition(rows, id) == {i \in DOMAIN rows : i = id}

\* WHERE id = ?
Matched(rows, id) == {i \in DOMAIN rows : rows[i].id = id}

PutBooks(key, rows, s, id, body) ==
    IF Updates(body) = {}
    THEN Outcome(rows, s, ErrorRes(400, "No fields provided for update."),
                 NoCall)
    ELSE LET matched == Matched(rows, id)
         IN  IF matched = {}
             THEN Outcome(rows, s, MessageRes(404, "Book not found.", 0),
                          NoCall)
             ELSE IF \E f \in Updates(body) \cap NotNullColumns :
                        ToSql(body[f]) = Null
             THEN Outcome(rows, s, ErrorRes(500, SqliteConstraint), NoCall)
             ELSE Outcome([i \in DOMAIN rows |->
                              IF i \in matched THEN UpdateRow(rows[i], body)
                              ELSE rows[i]],
                          s,
                          MessageRes(200, "Book updated successfully.", id),
                          NoCall)

(* --------------------------------------------------- DELETE /books/:id *)
DeleteBooks(key, rows, s, id) ==
    LET Keep(row) == row.id # id
        left == SelectSeq(rows, Keep)
    IN  IF Matched(rows, id) = {}
        THEN Outcome(rows, s, MessageRes(404, "Book not found.", 0), NoCall)
        ELSE Outcome(left, s,
                     MessageRes(200, "Book deleted successfully.", id),
                     NoCall)

(* --------------------------------------------------- GET /search-books *)
\* The maxResults parameter of the outbound URL.
MaxResults == 5

RECURSIVE Join(_, _)
\* Array.prototype.join
Join(strs, sep) ==
    IF strs = <<>> THEN ""
    ELSE IF Len(strs) = 1 THEN strs[1]
    ELSE strs[1] \o sep \o Join(Tail(strs), sep)

\* The callback of data.items.map
MapItem(item) ==
    [title |-> IF Falsy(item.title) THEN "N/A" ELSE item.title,
     author |-> IF item.hasAuthors THEN Join(item.authors, ", ") ELSE "N/A",
     coverImageUrl |->
        IF item.hasImageLinks
        THEN (IF Falsy(item.thumbnail) THEN item.smallThumbnail
              ELSE item.thumbnail)
        ELSE Null,
     description |-> IF Falsy(item.description)
                     THEN "No description available."
                     ELSE item.description]

ConfigError ==
    "Google Books API key is not configured on the server. Please check backend setup."
UpstreamFailure ==
    "Failed to search books from external API. Check server console for details."

\* A check with `=== null`, which an unset variable passes.
KeyMissingNullOnly(key) == key = Null

\* if (!GOOGLE_BOOKS_API_KEY)
KeyMissing(key) == Falsy(key)

SearchBooks(key, rows, s, q, up) ==
    IF Falsy(q)
    THEN Outcome(rows, s, ErrorRes(400, "Search query (q) is required."),
                 NoCall)
    ELSE IF KeyMissing(key)
    THEN Outcome(rows, s, ErrorRes(500, ConfigError), NoCall)
    ELSE LET call == [called |-> TRUE, q |-> q, key |-> key,
                      maxResults |-> MaxResults]
         IN  IF up.threw
             THEN Outcome(rows, s, ErrorRes(500, UpstreamFailure), call)
             ELSE IF ~up.ok
             THEN Outcome(rows, s,
                          ErrorRes(up.status,
                                   "Google Books API error: " \o up.statusText
                                   \o ". Check server console for details."),
                          call)
             ELSE IF ~up.hasItems
             THEN Outcome(rows, s,
                          [NoRes EXCEPT !.status = 200, !.json = "results"],
                          call)
             ELSE IF \E i \in DOMAIN up.items : ~up.items[i].hasVolumeInfo
             THEN Outcome(rows, s, ErrorRes(500, UpstreamFailure), call)
             ELSE Outcome(rows, s,
                          [NoRes EXCEPT
                              !.status = 200, !.json = "results",
                              !.results = [i \in DOMAIN up.items |->
                                              MapItem(up.items[i])]],
                          call)

(* ------------------------------------------------------------- the server *)
\* The useState initial values of App, before its mount effect has run.
EmptyForm ==
    [title |-> "", author |-> "", status |-> "Want to Read", notes |-> "",
     coverImageUrl |-> ""]

Unmounted ==
    /\ clientBooks = <<>>
    /\ view = "list"
    /\ newBook = EmptyForm
    /\ searchResults = <<>>
    /\ searchQuery = ""
    /\ loading = FALSE
    /\ error = Null
    /\ message = Null
    /\ timers = 0
    /\ inflight = {}
    /\ nreq = 0
    /\ confirmed = {}

\* A first run: books.db is created empty.
InitStore ==
    /\ books = <<>>
    /\ seq = 0
    /\ req = NoReq
    /\ res = NoRes
    /\ outbound = NoCall
    /\ Unmounted

\* GOOGLE_BOOKS_API_KEY is set in the environment.
Init == InitStore /\ apiKey = "key"

\* GOOGLE_BOOKS_API_KEY is not set.
InitNoKey == InitStore /\ apiKey = Undefined

Idle == req = NoReq

\* The handler's outcome becomes the new state; the counter stays in bounds.
Respond(r, out) ==
    /\ out.seq <= MaxSeq
    /\ req' = r
    /\ books' = out.books
    /\ seq' = out.seq
    /\ res' = out.res
    /\ outbound' = out.outbound
    /\ UNCHANGED <<apiKey, clientVars>>

HandleGetBooks ==
    /\ Idle
    /\ \E st \in StatusFilters :
          Respond(GetReq(st), GetBooks(apiKey, books, seq, st))

HandlePostBooks ==
    /\ Idle
    /\ \E b \in PostBodies :
          Respond(PostReq(b), PostBooks(apiKey, books, seq, b))

HandlePutBooks ==
    /\ Idle
    /\ \E id \in IdParams, b \in PutBodies :
          Respond(PutReq(id, b), PutBooks(apiKey, books, seq, id, b))

HandleDeleteBooks ==
    /\ Idle
    /\ \E id \in IdParams :
          Respond(DeleteReq(id), DeleteBooks(apiKey, books, seq, id))

HandleSearchBooks ==
    /\ Idle
    /\ \E q \in Queries, up \in Upstreams :
          Respond(SearchReq(q), SearchBooks(apiKey, books, seq, q, up))

\* The response has been sent; the server waits for the next request.
Finish ==
    /\ ~Idle
    /\ req' = NoReq
    /\ res' = NoRes
    /\ outbound' = NoCall
    /\ UNCHANGED <<books, seq, apiKey, clientVars>>

Next ==
    \/ HandleGetBooks
    \/ HandlePostBooks
    \/ HandlePutBooks
    \/ HandleDeleteBooks
    \/ HandleSearchBooks
    \/ Finish

Spec == Init /\ [][Next]_vars

SpecNoKey == InitNoKey /\ [][Next]_vars

(* ------------------------------------------------------------- the client *)
\* A fetch the client has started and not yet settled.  `books` is the value
\* of the books cell in the render whose handler started the fetch: the
\* handler's continuation reads that value, not the cell.
NoFetch ==
    [n |-> 0, kind |-> "none", phase |-> "sent", books |-> <<>>, id |-> 0,
     body |-> NoBody, q |-> Undefined, res |-> NoRes]

\* Tables books.db can hold when the page is opened; the second row was
\* created through POST /books with a status outside the three buckets.
RowA ==
    [id |-> 1, title |-> "Dune", author |-> "Herbert", status |-> "Reading",
     notes |-> "n", coverImageUrl |-> "u"]
RowP ==
    [id |-> 2, title |-> "Emma", author |-> Null, status |-> "Paused",
     notes |-> Null, coverImageUrl |-> Null]
InitialTables == {<<>>, <<RowA>>, <<RowA, RowP>>}

\* What the user types or selects in the add form and the search box.
Typed ==
    [title |-> {"Dune"}, author |-> {"Herbert"}, status |-> {"Reading"},
     notes |-> {"n"}, coverImageUrl |-> {"u"}]
TypedQueries == {"dune", " "}

\* An item whose imageLinks carries neither thumbnail nor smallThumbnail.
NoThumbItem ==
    [FullItem EXCEPT !.thumbnail = Undefined, !.smallThumbnail = Undefined]
\* What the catalog answers to the client's searches.
ClientUpstreams ==
    {[NoUpstream EXCEPT !.ok = FALSE, !.status = 403,
                        !.statusText = "Forbidden"],
     [NoUpstream EXCEPT !.hasItems = TRUE,
                        !.items = <<FullItem, NoThumbItem, BareItem>>]}

\* searchQuery.trim()
Trim(q) == IF q = " " THEN "" ELSE q

\* `${response.status}`
StatusString(code) ==
    CASE code = 400 -> "400"
      [] code = 403 -> "403"
      [] code = 404 -> "404"
      [] code = 500 -> "500"
      [] OTHER -> "0"

\* response.ok
Ok(r) == r.status \in 200 .. 299

\* errorData.error || `HTTP error! status: ${response.status}`
ErrorMessage(r) ==
    IF Falsy(r.error) THEN "HTTP error! status: " \o StatusString(r.status)
    ELSE r.error

\* The message of the TypeError a rejected fetch throws.
FailedToFetch == "Failed to fetch"

LoadFailed ==
    "Failed to load books. Please ensure the backend server is running."
\* The text each catch block gives setError.
CatchText(kind, msg) ==
    CASE kind = "load" -> LoadFailed
      [] kind = "search" ->
            "Failed to search books: " \o msg
                \o ". Please check your network or backend configuration."
      [] kind = "add" -> "Failed to add book: " \o msg
      [] kind = "update" -> "Failed to update book: " \o msg
      [] kind = "delete" -> "Failed to delete book: " \o msg

\* { ...book, ...updates }
Spread(book, updates) ==
    [f \in DOMAIN book |->
        IF f \in Fields /\ updates[f] # Undefined THEN updates[f]
        ELSE book[f]]

\* A writer of the books cell that starts from the cell's current value.
UpdatedInCurrent(captured, id, updates) ==
    [i \in DOMAIN clientBooks |->
        IF clientBooks[i].id = id THEN Spread(clientBooks[i], updates)
        ELSE clientBooks[i]]

\* [...books, addedBook]
Added(captured, addedBook) == Append(captured, addedBook)
\* books.map(book => book.id === id ? { ...book, ...updates } : book)
Updated(captured, id, updates) ==
    [i \in DOMAIN captured |->
        IF captured[i].id = id THEN Spread(captured[i], updates)
        ELSE captured[i]]
\* books.filter(book => book.id !== id)
Deleted(captured, id) == SelectSeq(captured, LAMBDA book : book.id # id)

\* categorizedBooks
CategorizedBooks(cached) ==
    [st \in Statuses |-> SelectSeq(cached, LAMBDA book : book.status = st)]

\* The page is opened on a server that is running and idle.
InitClient ==
    /\ books \in InitialTables
    /\ seq = Len(books)
    /\ req = NoReq
    /\ res = NoRes
    /\ outbound = NoCall
    /\ apiKey = "key"
    /\ Unmounted

Mounted == nreq > 0

\* Requests of one kind the server has not handled yet.
Unserved(kind) == {r \in inflight : r.kind = kind /\ r.phase = "sent"}

\* setLoading(true); setError(null); ... await fetch(...)
StartFetch(f) ==
    /\ nreq < MaxRequests
    /\ nreq' = nreq + 1
    /\ inflight' = inflight \cup {[f EXCEPT !.n = nreq + 1]}
    /\ loading' = TRUE
    /\ error' = Null
    /\ UNCHANGED <<serverVars, clientBooks, view, newBook, searchResults,
                   searchQuery, message, timers, confirmed>>

\* useEffect(() => { fetchBooks(); }, [])
fetchBooks ==
    /\ nreq = 0
    /\ StartFetch([NoFetch EXCEPT !.kind = "load"])

handleSearchBooks ==
    /\ Mounted
    /\ view = "add"
    /\ IF Trim(searchQuery) = ""
       THEN /\ searchResults' = <<>>
            /\ UNCHANGED <<serverVars, clientBooks, view, newBook,
                           searchQuery, loading, error, message, timers,
                           inflight, nreq, confirmed>>
       ELSE StartFetch([NoFetch EXCEPT !.kind = "search", !.q = searchQuery])

\* The form is submitted only with its required title filled in.
handleAddBook ==
    /\ Mounted
    /\ view = "add"
    /\ newBook.title # ""
    /\ seq + Cardinality(Unserved("add")) < MaxSeq
    /\ StartFetch([NoFetch EXCEPT !.kind = "add", !.books = clientBooks,
                                  !.body = newBook])

\* The status select of a rendered BookCard.
handleUpdateBook ==
    /\ Mounted
    /\ view = "list"
    /\ \E i \in DOMAIN clientBooks :
         /\ clientBooks[i].status \in Statuses
         /\ \E v \in Statuses \ {clientBooks[i].status} :
              StartFetch([NoFetch EXCEPT !.kind = "update",
                                         !.books = clientBooks,
                                         !.id = clientBooks[i].id,
                                         !.body = [NoBody EXCEPT !.status = v]])

\* The Delete button of a rendered BookCard.
handleDeleteBook ==
    /\ Mounted
    /\ view = "list"
    /\ \E i \in DOMAIN clientBooks :
         /\ clientBooks[i].status \in Statuses
         /\ StartFetch([NoFetch EXCEPT !.kind = "delete",
                                       !.books = clientBooks,
                                       !.id = clientBooks[i].id])

\* What the server answers to a request of the client.
Served(r, up) ==
    CASE r.kind = "load" -> GetBooks(apiKey, books, seq, Undefined)
      [] r.kind = "search" -> SearchBooks(apiKey, books, seq, r.q, up)
      [] r.kind = "add" -> PostBooks(apiKey, books, seq, r.body)
      [] r.kind = "update" -> PutBooks(apiKey, books, seq, r.id, r.body)
      [] r.kind = "delete" -> DeleteBooks(apiKey, books, seq, r.id)

\* The server handles one request of the client and sends its response.
Serve ==
    \E r \in inflight :
      /\ r.phase = "sent"
      /\ \E up \in (IF r.kind = "search" THEN ClientUpstreams
                    ELSE {NoUpstream}) :
           LET out == Served(r, up) IN
             /\ out.seq <= MaxSeq
             /\ books' = out.books
             /\ seq' = out.seq
             /\ inflight' = (inflight \ {r})
                    \cup {[r EXCEPT !.phase = "answered", !.res = out.res]}
      /\ UNCHANGED <<req, res, outbound, apiKey, clientBooks, view, newBook,
                     searchResults, searchQuery, loading, error, message,
                     timers, nreq, confirmed>>

\* finally { setLoading(false); }
Settle(r) ==
    /\ inflight' = inflight \ {r}
    /\ loading' = FALSE
    /\ UNCHANGED <<serverVars, nreq>>

\* A catch block that reports through showMessage(text, true).
CaughtShowingMessage(r, msg) ==
    /\ message' = CatchText(r.kind, msg)
    /\ timers' = timers + 1
    /\ UNCHANGED <<clientBooks, view, newBook, searchResults, searchQuery,
                   error>>

\* catch (err) { setError(...) }
Caught(r, msg) ==
    /\ error' = CatchText(r.kind, msg)
    /\ UNCHANGED <<clientBooks, view, newBook, searchResults, searchQuery,
                   message, timers>>

\* showMessage(msg, false)
showMessage(msg) ==
    /\ message' = msg
    /\ timers' = timers + 1

\* The fetches of one kind whose await has ended, with a response or with
\* a rejection.
Settled(kind) == {r \in inflight : r.kind = kind /\ r.phase # "sent"}

\* err.message in the catch block.
Thrown(r) ==
    IF r.phase = "rejected" THEN FailedToFetch
    ELSE IF r.kind = "load"
         THEN "HTTP error! status: " \o StatusString(r.res.status)
         ELSE ErrorMessage(r.res)

\* The mutation a request asked for: which book, and the status it wrote.
Mutation(r) ==
    [n |-> r.n, kind |-> r.kind,
     id |-> IF r.kind = "add" THEN r.res.book.id ELSE r.id,
     status |-> r.body.status]

\* The history of mutations whose 2xx response has been handled.
Record(r) ==
    confirmed' = IF Ok(r.res) THEN confirmed \cup {Mutation(r)} ELSE confirmed

\* fetchBooks after its await.
fetchBooksThen ==
    \E r \in Settled("load") :
      /\ Settle(r)
      /\ UNCHANGED confirmed
      /\ IF Ok(r.res)
         THEN /\ clientBooks' = r.res.rows
              /\ UNCHANGED <<view, newBook, searchResults, searchQuery,
                             error, message, timers>>
         ELSE Caught(r, Thrown(r))

\* handleSearchBooks after its await.
handleSearchBooksThen ==
    \E r \in Settled("search") :
      /\ Settle(r)
      /\ UNCHANGED confirmed
      /\ IF Ok(r.res)
         THEN /\ searchResults' = r.res.results
              /\ UNCHANGED <<clientBooks, view, newBook, searchQuery, error,
                             message, timers>>
         ELSE Caught(r, Thrown(r))

\* handleAddBook after its await.
handleAddBookThen ==
    \E r \in Settled("add") :
      /\ Settle(r)
      /\ Record(r)
      /\ IF Ok(r.res)
         THEN /\ clientBooks' = Added(r.books, r.res.book)
              /\ showMessage("Book added successfully!")
              /\ newBook' = EmptyForm
              /\ searchResults' = <<>>
              /\ searchQuery' = ""
              /\ view' = "list"
              /\ UNCHANGED error
         ELSE Caught(r, Thrown(r))

\* handleUpdateBook after its await.
handleUpdateBookThen ==
    \E r \in Settled("update") :
      /\ Settle(r)
      /\ Record(r)
      /\ IF Ok(r.res)
         THEN /\ clientBooks' = Updated(r.books, r.id, r.body)
              /\ showMessage("Book updated successfully!")
              /\ UNCHANGED <<view, newBook, searchResults, searchQuery,
                             error>>
         ELSE Caught(r, Thrown(r))

\* handleDeleteBook after its await.
handleDeleteBookThen ==
    \E r \in Settled("delete") :
      /\ Settle(r)
      /\ Record(r)
      /\ IF Ok(r.res)
         THEN /\ clientBooks' = Deleted(r.books, r.id)
              /\ showMessage("Book deleted successfully!")
              /\ UNCHANGED <<view, newBook, searchResults, searchQuery,
                             error>>
         ELSE Caught(r, Thrown(r))

\* The request or its response is lost on the network: the fetch rejects.
FetchRejects ==
    \E r \in inflight :
      /\ r.phase # "rejected"
      /\ inflight' = (inflight \ {r})
            \cup {[r EXCEPT !.phase = "rejected", !.res = NoRes]}
      /\ UNCHANGED <<serverVars, clientBooks, view, newBook, searchResults,
                     searchQuery, loading, error, message, timers, nreq,
                     confirmed>>

\* setTimeout(() => setMessage(null), 3000)
TimerFires ==
    /\ timers > 0
    /\ timers' = timers - 1
    /\ message' = Null
    /\ UNCHANGED <<serverVars, clientBooks, view, newBook, searchResults,
                   searchQuery, loading, error, inflight, nreq, confirmed>>

\* The two navigation buttons.
setView ==
    /\ Mounted
    /\ \E v \in {"list", "add"} \ {view} : view' = v
    /\ UNCHANGED <<serverVars, clientBooks, newBook, searchResults,
                   searchQuery, loading, error, message, timers, inflight,
                   nreq, confirmed>>

\* onChange of one input of the form.
setField(f) ==
    /\ Mounted
    /\ \E v \in Typed[f] \ {newBook[f]} : newBook' = [newBook EXCEPT ![f] = v]
    /\ UNCHANGED <<serverVars, clientBooks, view, searchResults, searchQuery,
                   loading, error, message, timers, inflight, nreq, confirmed>>

setNewBookTitle ==
    /\ view = "add"
    /\ setField("title")
setNewBookAuthor ==
    /\ view = "add"
    /\ setField("author")
setNewBookStatus ==
    /\ view = "add"
    /\ setField("status")
setNewBookNotes ==
    /\ view = "add"
    /\ setField("notes")
setNewBookCoverImageUrl ==
    /\ view = "add"
    /\ setField("coverImageUrl")

\* onChange of the search box.
setSearchQuery ==
    /\ Mounted
    /\ view = "add"
    /\ \E q \in TypedQueries \ {searchQuery} : searchQuery' = q
    /\ UNCHANGED <<serverVars, clientBooks, view, newBook, searchResults,
                   loading, error, message, timers, inflight, nreq, confirmed>>

\* A "Use This" that starts from an empty form.
useThisOnEmptyForm ==
    /\ Mounted
    /\ view = "add"
    /\ \E i \in DOMAIN searchResults :
         newBook' = [EmptyForm EXCEPT
                        !.title = searchResults[i].title,
                        !.author = searchResults[i].author,
                        !.coverImageUrl = searchResults[i].coverImageUrl]
    /\ searchResults' = <<>>
    /\ searchQuery' = ""
    /\ UNCHANGED <<serverVars, clientBooks, view, loading, error, message,
                   timers, inflight, nreq, confirmed>>

\* The "Use This" button of a search result.
useThis ==
    /\ Mounted
    /\ view = "add"
    /\ \E i \in DOMAIN searchResults :
         newBook' = [newBook EXCEPT
                        !.title = searchResults[i].title,
                        !.author = searchResults[i].author,
                        !.coverImageUrl = searchResults[i].coverImageUrl]
    /\ searchResults' = <<>>
    /\ searchQuery' = ""
    /\ UNCHANGED <<serverVars, clientBooks, view, loading, error, message,
                   timers, inflight, nreq, confirmed>>

\* The user fills in the title only and does not search; requests start at
\* any moment and any of them may be lost.
NextClient ==
    \/ fetchBooks
    \/ handleAddBook
    \/ handleUpdateBook
    \/ handleDeleteBook
    \/ Serve
    \/ fetchBooksThen
    \/ handleAddBookThen
    \/ handleUpdateBookThen
    \/ handleDeleteBookThen
    \/ FetchRejects
    \/ TimerFires
    \/ setView
    \/ setNewBookTitle

SpecClient == InitClient /\ [][NextClient]_vars

\* The user waits for each request to settle before starting the next, and
\* no request is lost.
Quiet == inflight = {}

searchWhenQuiet ==
    /\ Quiet
    /\ handleSearchBooks
addWhenQuiet ==
    /\ Quiet
    /\ handleAddBook
updateWhenQuiet ==
    /\ Quiet
    /\ handleUpdateBook
deleteWhenQuiet ==
    /\ Quiet
    /\ handleDeleteBook

NextClientSeq ==
    \/ fetchBooks
    \/ searchWhenQuiet
    \/ addWhenQuiet
    \/ updateWhenQuiet
    \/ deleteWhenQuiet
    \/ Serve
    \/ fetchBooksThen
    \/ handleSearchBooksThen
    \/ handleAddBookThen
    \/ handleUpdateBookThen
    \/ handleDeleteBookThen
    \/ TimerFires
    \/ setView
    \/ setNewBookTitle
    \/ setNewBookAuthor
    \/ setNewBookStatus
    \/ setNewBookNotes
    \/ setNewBookCoverImageUrl
    \/ setSearchQuery
    \/ useThis

SpecClientSeq == InitClient /\ [][NextClientSeq]_vars

\* The user only searches and fills in the form.
NextSearch ==
    \/ fetchBooks
    \/ handleSearchBooks
    \/ Serve
    \/ fetchBooksThen
    \/ handleSearchBooksThen
    \/ FetchRejects
    \/ setView
    \/ setNewBookTitle
    \/ setNewBookAuthor
    \/ setNewBookStatus
    \/ setNewBookNotes
    \/ setNewBookCoverImageUrl
    \/ setSearchQuery
    \/ useThis

SpecSearch == InitClient /\ [][NextSearch]_vars

(* ---------------------------------------------------------------- claims *)
\* A step that handles a request: the server was idle and req' is the
\* request it answered.
Handles(method, path) ==
    Idle /\ req'.method = method /\ req'.path = path

StoreUnchanged == books' = books /\ seq' = seq

\* The rows GET /books answers with in the current state.
Listed == GetBooks(apiKey, books, seq, Undefined).res.rows

\* C1: in every reachable state every row of the books table has a
\* non-empty title and a status out of 'Want to Read', 'Reading',
\* 'Finished'.
C1_StoredBooksValid ==
    \A i \in DOMAIN books :
        /\ books[i].title \notin {"", Null}
        /\ books[i].status \in Statuses

\* C2: a POST /books whose title or status is missing or empty is answered
\* with 400 and leaves the table and the id counter as they were.
C2_InvalidPostRejected ==
    [][(/\ Handles("POST", "/books")
        /\ \/ req'.body.title \in {Undefined, Null, ""}
           \/ req'.body.status \in {Undefined, Null, ""})
       => (res'.status = 400 /\ StoreUnchanged)]_vars

\* A POST without a status was answered 400 while the table held a row.
C2_Witness ==
    /\ req.method = "POST"
    /\ req.body.title = "Dune"
    /\ req.body.status \in {Undefined, ""}
    /\ res.status = 400
    /\ Len(books) = 1
    /\ seq = 1

\* C3: a POST /books with non-empty title and status is answered with 201
\* and a Book whose id no other stored row has, and a GET /books issued
\* afterwards returns a row with that id whose title, author, status, notes
\* and coverImageUrl equal the ones in the 201 response.
C3_CreatedBookListed ==
    (/\ req.method = "POST"
     /\ ~Falsy(req.body.title)
     /\ ~Falsy(req.body.status))
    => /\ res.status = 201
       /\ Cardinality({i \in DOMAIN books : books[i].id = res.book.id}) = 1
       /\ \E i \in DOMAIN Listed :
             /\ Listed[i].id = res.book.id
             /\ \A f \in Fields : Listed[i][f] = res.book[f]


RowsOf(rows) == {rows[i] : i \in DOMAIN rows}

Present(body) == {f \in Fields : body[f] # Undefined}

\* C4: a successful PUT /books/:id sets exactly the fields present in the
\* body on the row with that id; that row's other fields and its id, every
\* other row and the id counter are unchanged.
C4_PutChangesOnlySuppliedFields ==
    [][(Handles("PUT", "/books") /\ res'.status = 200)
       => /\ DOMAIN books' = DOMAIN books
          /\ seq' = seq
          /\ \E i \in DOMAIN books : books[i].id = req'.id
          /\ \A i \in DOMAIN books :
                IF books[i].id = req'.id
                THEN /\ books'[i].id = books[i].id
                     /\ \A f \in Present(req'.body) :
                           books'[i][f] = req'.body[f]
                     /\ \A f \in Fields \ Present(req'.body) :
                           books'[i][f] = books[i][f]
                ELSE books'[i] = books[i]]_vars

\* A PUT of the status alone succeeded on one of two rows that has notes.
C4_Witness ==
    /\ req.method = "PUT"
    /\ res.status = 200
    /\ Present(req.body) = {"status"}
    /\ Len(books) = 2
    /\ \E i \in DOMAIN books :
          /\ books[i].id = req.id
          /\ books[i].status = req.body.status
          /\ books[i].notes = "n"
          /\ books[i].title = "Dune"

\* C5: a PUT /books/:id with at least one recognized field, for an id no
\* stored row has, is answered with 404 and leaves the table unchanged.
C5_PutUnknownIdNotFound ==
    [][(/\ Handles("PUT", "/books")
        /\ Present(req'.body) # {}
        /\ req'.id \notin Ids(books))
       => (res'.status = 404 /\ StoreUnchanged)]_vars

\* A PUT for a deleted id was answered 404 while another row is stored.
C5_Witness ==
    /\ req.method = "PUT"
    /\ res.status = 404
    /\ Present(req.body) # {}
    /\ req.id \notin Ids(books)
    /\ req.id <= seq
    /\ books # <<>>

\* C6: a PUT /books/:id whose body has none of title, author, status,
\* notes, coverImageUrl is answered with 400 whether or not a row with that
\* id exists, and leaves the table unchanged.
C6_PutEmptyBodyRejected ==
    [][(Handles("PUT", "/books") /\ Present(req'.body) = {})
       => (res'.status = 400 /\ StoreUnchanged)]_vars

\* An empty PUT for the id of a stored row was answered 400.
C6_Witness ==
    /\ req.method = "PUT"
    /\ Present(req.body) = {}
    /\ res.status = 400
    /\ req.id \in Ids(books)

\* C7: DELETE /books/:id for a stored id is answered with 200 and removes
\* exactly that row; the id is in no later state of the table, so no later
\* GET /books returns it; a DELETE for an id that is not stored, such as a
\* second DELETE of the same id, is answered with 404 and changes nothing.
C7_DeleteRemovesExactlyOneRow ==
    [][/\ Handles("DELETE", "/books")
          => IF req'.id \in Ids(books)
             THEN /\ res'.status = 200
                  /\ Len(books') = Len(books) - 1
                  /\ RowsOf(books') =
                        {row \in RowsOf(books) : row.id # req'.id}
                  /\ seq' = seq
             ELSE res'.status = 404 /\ StoreUnchanged
       /\ \A id \in IdParams :
             (id <= seq /\ id \notin Ids(books)) => id \notin Ids(books')]_vars

\* A second DELETE of an id was answered 404 while another row is stored.
C7_Witness ==
    /\ req.method = "DELETE"
    /\ res.status = 404
    /\ req.id <= seq
    /\ req.id \notin Ids(books)
    /\ books # <<>>

\* The stored rows with status st, as a GET /books?status=st must list them.
ExactlyWithStatus(rows, st) ==
    /\ RowsOf(rows) = {row \in RowsOf(books) : row.status = st}
    /\ Len(rows) = Cardinality(RowsOf(rows))

\* C8 as claimed: GET /books?status=S returns exactly the stored rows whose
\* status equals S, for every S, GET /books without a status parameter
\* returns every stored row, and neither changes the store.
C8_FilterForEveryStatus ==
    [][Handles("GET", "/books")
       => /\ StoreUnchanged
          /\ res'.status = 200
          /\ IF req'.status = Undefined
             THEN res'.rows = books
             ELSE ExactlyWithStatus(res'.rows, req'.status)]_vars

\* C8, amended: GET /books?status=S with a non-empty S returns exactly the
\* stored rows whose status equals S; GET /books without a status parameter
\* or with an empty one returns every stored row; neither changes the store.
C8_FilterForNonEmptyStatus ==
    [][Handles("GET", "/books")
       => /\ StoreUnchanged
          /\ res'.status = 200
          /\ IF req'.status \in {Undefined, ""}
             THEN res'.rows = books
             ELSE ExactlyWithStatus(res'.rows, req'.status)]_vars

\* GET /books?status=Reading listed one of two stored rows.
C8_Witness ==
    /\ req.method = "GET"
    /\ req.path = "/books"
    /\ req.status = "Reading"
    /\ Len(books) = 2
    /\ Len(res.rows) = 1
    /\ res.rows[1].status = "Reading"

\* What a server that has the credential answers to a /books request, and
\* the table it leaves.
WithCredential(rows, s, r) ==
    CASE r.method = "GET" -> GetBooks("key", rows, s, r.status)
      [] r.method = "POST" -> PostBooks("key", rows, s, r.body)
      [] r.method = "PUT" -> PutBooks("key", rows, s, r.id, r.body)
      [] r.method = "DELETE" -> DeleteBooks("key", rows, s, r.id)

\* C9: without the search credential every GET /search-books with a
\* non-empty q is answered with 500 and the configuration error, no outbound
\* call is made and the table is unchanged; every /books request is answered,
\* and changes the table, exactly as a server with the credential would.
C9_NoCredentialOnlyStopsSearch ==
    [][(Idle /\ req' # NoReq /\ apiKey = Undefined)
       => /\ (req'.path = "/search-books" /\ req'.q \notin {Undefined, ""})
             => /\ res'.status = 500
                /\ res'.error = ConfigError
                /\ ~outbound'.called
                /\ StoreUnchanged
          /\ req'.path = "/books"
             => Outcome(books', seq', res', outbound')
                    = WithCredential(books, seq, req')]_vars

\* Without the credential a search was answered 500 while rows are stored.
C9_Witness ==
    /\ apiKey = Undefined
    /\ req.path = "/search-books"
    /\ req.q = "dune"
    /\ res.status = 500
    /\ res.error = ConfigError
    /\ Len(books) = 2

\* C10: every 200 response of GET /search-books has at most 5 result items,
\* whatever the external catalog answers.
C10_AtMostFiveResults ==
    (req.path = "/search-books" /\ res.status = 200)
    => Len(res.results) <= 5

(* ------------------------------------------------- claims on the client *)
Mutations == {"add", "update", "delete"}

\* The continuation of request r runs in this step.
Handled(r) ==
    /\ r \in inflight
    /\ r.phase # "sent"
    /\ \A o \in inflight' : o.n # r.n

\* The continuation of a mutation the server confirmed runs in this step.
Confirmed(r) == Handled(r) /\ r.kind \in Mutations /\ Ok(r.res)

\* The continuation of a request that failed runs in this step.
Failed(r) == Handled(r) /\ ~Ok(r.res)

\* C11: when the client waits for each request to settle before starting the
\* next, then after the continuation of every mutation the server confirmed
\* the cached collection equals the books table, ids and field values alike.
C11_CacheEqualsTable ==
    [][\A r \in inflight : Confirmed(r) => clientBooks' = books']_vars

\* The cached collection shows what mutation m did to its book.
Reflected(m, cached) ==
    CASE m.kind = "add" -> \E i \in DOMAIN cached : cached[i].id = m.id
      [] m.kind = "update" ->
            \E i \in DOMAIN cached :
                cached[i].id = m.id /\ cached[i].status = m.status
      [] m.kind = "delete" -> \A i \in DOMAIN cached : cached[i].id # m.id

\* Another confirmed mutation of the same book has been handled as well.
Superseded(m) == \E o \in confirmed : o.n # m.n /\ o.id = m.id

\* C12: under every interleaving of the client's requests, a mutation whose
\* 2xx response has been handled is reflected in the cached collection, and
\* stays reflected while the responses of the other requests are handled.
C12_ConfirmedStaysReflected ==
    \A m \in confirmed : Superseded(m) \/ Reflected(m, clientBooks)

\* The requests whose continuation writes the cached collection.
Writers == {"load", "add", "update", "delete"}

\* What the continuation of r writes: a value made from the response and
\* from the collection its handler captured when it was started.
LastWrite(r) ==
    CASE r.kind = "load" -> r.res.rows
      [] r.kind = "add" -> r.books \o <<r.res.book>>
      [] r.kind = "update" ->
            [i \in DOMAIN r.books |->
                IF r.books[i].id = r.id
                THEN [r.books[i] EXCEPT !.status = r.body.status]
                ELSE r.books[i]]
      [] r.kind = "delete" ->
            SelectSeq(r.books, LAMBDA book : book.id # r.id)

\* C13: when writes of the cached collection overlap, each response that
\* arrives replaces the collection by its own value, whatever the collection
\* held, so the response that arrives last decides the collection, in
\* whichever order the requests were started.
C13_LastResponseWins ==
    [][\A r \in inflight :
         (Handled(r) /\ r.kind \in Writers /\ Ok(r.res))
            => clientBooks' = LastWrite(r)]_vars

\* Two overlapping mutations have both been handled and the one whose
\* response arrived first has been overwritten by the other.
C13_Witness ==
    /\ inflight = {}
    /\ Cardinality(confirmed) = 2
    /\ \E m \in confirmed : ~Superseded(m) /\ ~Reflected(m, clientBooks)

\* C14: when an add, update or delete fails, by a non-2xx response or by a
\* rejected fetch, its continuation leaves the cached collection as it was,
\* sets the error text and shows no success message; after a failed add the
\* form fields and the view are as they were.
C14_FailureLeavesCache ==
    [][\A r \in inflight :
         (Failed(r) /\ r.kind \in Mutations)
            => /\ clientBooks' = clientBooks
               /\ error' # Null
               /\ message' = message
               /\ timers' = timers
               /\ (r.kind = "add" => newBook' = newBook /\ view' = view)]_vars

\* An update of a book that a concurrent delete had removed was answered
\* 404 and its continuation has run.
C14_Witness ==
    /\ inflight = {}
    /\ error = "Failed to update book: HTTP error! status: 404"

\* C15: the loading flag is true in every state where a request of the
\* client is in flight, and false in every state where none is.
C15_LoadingWhileInFlight == loading = (inflight # {})

\* C16: every error text and every success message shown is transient: while
\* one is shown, a timer that will clear it is pending.
C16_ShownTextHasTimer == (error # Null \/ message # Null) => timers > 0

\* What choosing a search result does to the form and the search state.
UseThisEffect ==
    /\ \E i \in DOMAIN searchResults :
         newBook' = [title |-> searchResults[i].title,
                     author |-> searchResults[i].author,
                     status |-> newBook.status,
                     notes |-> newBook.notes,
                     coverImageUrl |-> searchResults[i].coverImageUrl]
    /\ searchResults' = <<>>
    /\ searchQuery' = ""
    /\ view' = view
    /\ clientBooks' = clientBooks

\* C17: starting a search and handling its response leave the five form
\* fields as they were; choosing a result overwrites title, author and
\* coverImageUrl with the result's values, empties the search results and
\* the query, and leaves status, notes, the view and the cached collection.
C17_SearchLeavesForm ==
    [][/\ (handleSearchBooks \/ handleSearchBooksThen) => newBook' = newBook
       /\ useThis => UseThisEffect]_vars

\* A result was chosen into a form whose status and notes had been typed,
\* after a search had returned.
C17_Witness ==
    /\ newBook = [title |-> "Dune",
                  author |-> "Frank Herbert, Brian Herbert",
                  status |-> "Reading", notes |-> "n",
                  coverImageUrl |-> "thumb.jpg"]
    /\ searchResults = <<>>
    /\ searchQuery = ""
    /\ nreq >= 2

\* The number of buckets of categorizedBooks that show the book.
BucketsShowing(book) ==
    Cardinality({st \in Statuses :
        \E i \in DOMAIN CategorizedBooks(clientBooks)[st] :
            CategorizedBooks(clientBooks)[st][i] = book})

\* C18: the three buckets partition the cached collection: every cached
\* book is shown in exactly one bucket.
C18_BucketsPartition ==
    \A i \in DOMAIN clientBooks : BucketsShowing(clientBooks[i]) = 1

====
